---- MODULE Spec2Model ----
(***************************************************************************)
(* Model of the task service of simple-todo-list: the persisted tasks      *)
(* table (app/models.py) and the operations of TaskService                 *)
(* (app/task_service.py).                                                  *)
(*                                                                         *)
(* An Optional[T] value is None == <<>> or Some(v) == <<v>>.  The keyword  *)
(* arguments of a request are a function whose DOMAIN is the set of fields *)
(* the caller provided (pydantic's fields_set), so an omitted field and a  *)
(* field set to None differ.  datetime.utcnow() reads a wall clock of      *)
(* finite resolution: two reads may return the same value; a read returns  *)
(* any value from the last value read upward.                              *)
(*                                                                         *)
(* The variable ui is the state of one view of the page (app/todo_ui.py):  *)
(* the handler that ran last with its input, the dialog that is open, and  *)
(* what the handler showed.  The service operations leave it unchanged.    *)
(* The variable sessions counts the TaskService objects the handlers of    *)
(* the view constructed and closed.                                        *)
(***************************************************************************)
EXTENDS Integers, Sequences, FiniteSets, TLC

VARIABLES store, lastId, now, last, ui, sessions

vars == <<store, lastId, now, last, ui, sessions>>

\* ------------------------------------------------------------ bounds
\* ids the store may assign are 1..MaxId
MaxId == 2
\* clock values are 0..MaxClock
MaxClock == 2

\* ------------------------------------------------- program constants
TitleMinLength == 1
TitleMaxLength == 200
DescriptionMaxLength == 1000

\* ------------------------------------------------------------ values
None == <<>>
Some(v) == <<v>>

TaskPriority == {"low", "medium", "high", "urgent"}

\* A text is held run-length encoded: a sequence of runs, each a character
\* and the number of times it is repeated; "" is the empty sequence.
Run(c, n) == [c |-> c, n |-> n]

Repeat(c, n) == IF n = 0 THEN <<>> ELSE <<Run(c, n)>>

\* len(text)
RECURSIVE TextLen(_)
TextLen(text) ==
    IF text = <<>> THEN 0 ELSE Head(text).n + TextLen(Tail(text))

EmptyText == <<>>
TitleA == Repeat("a", 1)
TitleB == Repeat("b", 1)
TitleMax == Repeat("x", TitleMaxLength)
TitleTooLong == Repeat("x", TitleMaxLength + 1)
DescriptionMax == Repeat("d", DescriptionMaxLength)
DescriptionTooLong == Repeat("d", DescriptionMaxLength + 1)

\* ids a caller may pass: every assignable id and one that is never assigned
CallIds == 1..(MaxId + 1)

\* the four columns of the tasks table declared with a non-Optional type
NotNullColumns == {"title", "description", "completed", "priority"}

\* ------------------------------------------------------------ schemas
\* mutant of TaskCreateValid: the title's max_length is not checked
TaskCreateValidNoMax(kw) ==
    /\ "title" \in DOMAIN kw
    /\ TextLen(kw.title) >= TitleMinLength
    /\ ("description" \in DOMAIN kw => TextLen(kw.description) <= DescriptionMaxLength)

\* TaskCreate(**kw): pydantic validation of the create request
TaskCreateValid(kw) ==
    /\ "title" \in DOMAIN kw
    /\ TextLen(kw.title) >= TitleMinLength
    /\ TextLen(kw.title) <= TitleMaxLength
    /\ ("description" \in DOMAIN kw => TextLen(kw.description) <= DescriptionMaxLength)

\* mutant of TaskCreateDump: the default priority is no member of TaskPriority
TaskCreateDumpBadDefault(kw) ==
    [title       |-> kw.title,
     description |-> IF "description" \in DOMAIN kw THEN kw.description ELSE EmptyText,
     priority    |-> IF "priority" \in DOMAIN kw THEN kw.priority ELSE "normal",
     due_date    |-> IF "due_date" \in DOMAIN kw THEN kw.due_date ELSE None]

\* TaskCreate.model_dump(): every field, the omitted ones at their default
TaskCreateDump(kw) ==
    [title       |-> kw.title,
     description |-> IF "description" \in DOMAIN kw THEN kw.description ELSE EmptyText,
     priority    |-> IF "priority" \in DOMAIN kw THEN kw.priority ELSE "medium",
     due_date    |-> IF "due_date" \in DOMAIN kw THEN kw.due_date ELSE None]

\* mutant of TaskUpdateValid: the title's max_length is not checked
TaskUpdateValidNoMax(kw) ==
    /\ ("title" \in DOMAIN kw /\ kw.title # None =>
            TextLen(kw.title[1]) >= TitleMinLength)
    /\ ("description" \in DOMAIN kw /\ kw.description # None =>
            TextLen(kw.description[1]) <= DescriptionMaxLength)

\* TaskUpdate(**kw): every field Optional, the length bounds apply to a text
TaskUpdateValid(kw) ==
    /\ ("title" \in DOMAIN kw /\ kw.title # None =>
            /\ TextLen(kw.title[1]) >= TitleMinLength
            /\ TextLen(kw.title[1]) <= TitleMaxLength)
    /\ ("description" \in DOMAIN kw /\ kw.description # None =>
            TextLen(kw.description[1]) <= DescriptionMaxLength)

\* Task(**data): id not yet assigned, completed False, and one clock read for
\* each of created_at and updated_at (two default_factory calls)
Task(data, c, u) ==
    [id          |-> 0,
     title       |-> data.title,
     description |-> data.description,
     completed   |-> FALSE,
     priority    |-> data.priority,
     due_date    |-> data.due_date,
     created_at  |-> c,
     updated_at  |-> u]

\* ------------------------------------------------------------- store
\* datetime.utcnow(): the values a read may return
UtcNow == now..MaxClock

\* mutant of SessionGet: a key that matches no row yields some other row
SessionGetAny(task_id) ==
    IF task_id \in DOMAIN store THEN Some(store[task_id])
    ELSE IF DOMAIN store = {} THEN None
    ELSE Some(store[CHOOSE i \in DOMAIN store : TRUE])

\* session.get(Task, task_id)
SessionGet(task_id) ==
    IF task_id \in DOMAIN store THEN Some(store[task_id]) ELSE None

\* the primary key an INSERT may be given: the successor of the largest key
\* in the table (a rowid) or of the largest key ever assigned (a sequence)
Largest(S) == IF S = {} THEN 0 ELSE CHOOSE m \in S : \A x \in S : x <= m

NewIds == {Largest(DOMAIN store) + 1, lastId + 1}

\* mutant of Upsert: a row whose key is already in the table is inserted again
\* under a new key instead of replacing the stored row
UpsertAsNew(rows, row) ==
    LET k == IF row.id \in DOMAIN rows THEN Largest(DOMAIN rows) + 1 ELSE row.id
    IN  [j \in DOMAIN rows \cup {k} |-> IF j = k THEN [row EXCEPT !.id = k] ELSE rows[j]]

\* the table after the row is inserted or updated
Upsert(rows, row) ==
    [j \in DOMAIN rows \cup {row.id} |-> IF j = row.id THEN row ELSE rows[j]]

\* mutant of Deleted: the row is not removed
DeletedNothing(rows, task_id) == rows

\* the table after session.delete(task) and commit
Deleted(rows, task_id) ==
    [j \in DOMAIN rows \ {task_id} |-> rows[j]]

\* mutant of SetAttrs: a field the request sets to None is taken as omitted
\* (exclude_none in place of exclude_unset)
SetAttrsExcludeNone(task, kw, t) ==
    [id          |-> task.id,
     title       |-> IF "title" \in DOMAIN kw /\ kw.title # None
                     THEN kw.title ELSE Some(task.title),
     description |-> IF "description" \in DOMAIN kw /\ kw.description # None
                     THEN kw.description ELSE Some(task.description),
     completed   |-> IF "completed" \in DOMAIN kw /\ kw.completed # None
                     THEN kw.completed ELSE Some(task.completed),
     priority    |-> IF "priority" \in DOMAIN kw /\ kw.priority # None
                     THEN kw.priority ELSE Some(task.priority),
     due_date    |-> IF "due_date" \in DOMAIN kw /\ kw.due_date # None
                     THEN kw.due_date ELSE task.due_date,
     created_at  |-> task.created_at,
     updated_at  |-> t]

\* the attributes of the task after `for field, value: setattr(task, field,
\* value)` and the refresh of updated_at; the non-Optional columns are held
\* as Some(value), or None where the request set the field to None
SetAttrs(task, kw, t) ==
    [id          |-> task.id,
     title       |-> IF "title" \in DOMAIN kw THEN kw.title ELSE Some(task.title),
     description |-> IF "description" \in DOMAIN kw THEN kw.description
                     ELSE Some(task.description),
     completed   |-> IF "completed" \in DOMAIN kw THEN kw.completed
                     ELSE Some(task.completed),
     priority    |-> IF "priority" \in DOMAIN kw THEN kw.priority
                     ELSE Some(task.priority),
     due_date    |-> IF "due_date" \in DOMAIN kw THEN kw.due_date ELSE task.due_date,
     created_at  |-> task.created_at,
     updated_at  |-> t]

\* the NOT NULL constraint of the non-Optional columns, checked at commit
NotNullOk(attrs) == \A f \in NotNullColumns : attrs[f] # None

\* the row an UPDATE writes
Row(attrs) ==
    [id          |-> attrs.id,
     title       |-> attrs.title[1],
     description |-> attrs.description[1],
     completed   |-> attrs.completed[1],
     priority    |-> attrs.priority[1],
     due_date    |-> attrs.due_date,
     created_at  |-> attrs.created_at,
     updated_at  |-> attrs.updated_at]

\* ------------------------------------------------------------ queries
\* every sequence that lists each element of S once
RECURSIVE Orderings(_)
Orderings(S) ==
    IF S = {} THEN {<<>>}
    ELSE UNION {{<<x>> \o r : r \in Orderings(S \ {x})} : x \in S}

\* ORDER BY desc(column): the rows with the ids in S in an order in which the
\* column never increases; rows equal in the column come in any order
OrderByDesc(rows, S, column) ==
    {[k \in 1..Len(o) |-> rows[o[k]]] : o \in
        {o \in Orderings(S) :
            \A k \in 1..(Len(o) - 1) : rows[o[k]][column] >= rows[o[k + 1]][column]}}

\* mutant of AllTasks: ordered by updated_at
AllTasksByUpdated(rows) == OrderByDesc(rows, DOMAIN rows, "updated_at")

\* select(Task).order_by(desc(Task.created_at))
AllTasks(rows) == OrderByDesc(rows, DOMAIN rows, "created_at")

\* mutant of CompletedTasks: ordered by created_at
CompletedTasksByCreated(rows) ==
    OrderByDesc(rows, {i \in DOMAIN rows : rows[i].completed}, "created_at")

\* select(Task).where(Task.completed).order_by(desc(Task.updated_at))
CompletedTasks(rows) ==
    OrderByDesc(rows, {i \in DOMAIN rows : rows[i].completed}, "updated_at")

\* select(Task).where(Task.completed == False).order_by(desc(Task.created_at))
PendingTasks(rows) ==
    OrderByDesc(rows, {i \in DOMAIN rows : rows[i].completed = FALSE}, "created_at")

\* ------------------------------------------------------------- inputs
\* keyword arguments given to TaskCreate
CreateRequests ==
    { [title |-> TitleA],
      [title |-> TitleMax, description |-> DescriptionMax,
       priority |-> "urgent", due_date |-> Some(1)],
      [title |-> EmptyText],
      [title |-> TitleTooLong, priority |-> "high"],
      [title |-> TitleA, description |-> DescriptionTooLong] }

\* keyword arguments given to TaskUpdate
UpdateRequests ==
    { [title |-> Some(TitleB)],
      [due_date |-> None],
      [title |-> None, priority |-> Some("high")],
      [description |-> None],
      [title |-> Some(EmptyText)],
      [title |-> Some(TitleTooLong), completed |-> Some(TRUE)],
      [description |-> Some(DescriptionTooLong)] }

\* what an operation returned or raised
Returned(kind, val) == [kind |-> kind, val |-> val]

Raised(kind) == [kind |-> kind, val |-> None]

\* the call just made: its name, its id and request arguments, the row of that
\* id before the call, and the outcome
Call(op, task_id, req, result) ==
    [op |-> op, id |-> task_id, req |-> req,
     before |-> SessionGet(task_id), result |-> result]

NoRequest == <<>>

\* the state of the view: who made the last step ("view", or "other" for
\* another view of the same store), the handler that ran last in this view
\* with the task id, the form values and the dialog result it was given, the
\* dialog that is open, the notification and page reload the handler issued,
\* the TaskService methods it called, and the groups the list shows
View(handler, task_id, form, result, dialog, notify, reload, calls, groups) ==
    [actor |-> "view", handler |-> handler, id |-> task_id, form |-> form,
     result |-> result, dialog |-> dialog, notify |-> notify, reload |-> reload,
     calls |-> calls, groups |-> groups]

NoHandler == View("init", 0, None, "", None, None, FALSE, <<>>, None)

\* ------------------------------------------------------------ actions
Init ==
    /\ store = <<>>
    /\ lastId = 0
    /\ now = 0
    /\ last = [op |-> "init", id |-> 0, req |-> NoRequest,
               before |-> None, result |-> Returned("None", None)]
    /\ ui = NoHandler
    /\ sessions = [open |-> 0, constructed |-> 0, closed |-> 0]

\* TaskCreate(**kw) followed by TaskService.create_task
CreateTask(kw) ==
    IF ~TaskCreateValid(kw)
    THEN /\ last' = Call("create_task", 0, kw, Raised("ValidationError"))
         /\ UNCHANGED <<store, lastId, now>>
    ELSE \E c \in UtcNow : \E u \in c..MaxClock : \E i \in NewIds :
         /\ i <= MaxId
         /\ LET task == [Task(TaskCreateDump(kw), c, u) EXCEPT !.id = i]
            IN  /\ store' = Upsert(store, task)
                /\ last' = Call("create_task", 0, kw, Returned("Task", task))
         /\ lastId' = IF i > lastId THEN i ELSE lastId
         /\ now' = u

\* TaskService.get_all_tasks
GetAllTasks ==
    /\ \E r \in AllTasks(store) :
          last' = Call("get_all_tasks", 0, NoRequest, Returned("List", r))
    /\ UNCHANGED <<store, lastId, now>>

\* TaskService.get_task
GetTask(task_id) ==
    /\ last' = Call("get_task", task_id, NoRequest,
                    IF SessionGet(task_id) = None THEN Returned("None", None)
                    ELSE Returned("Task", SessionGet(task_id)[1]))
    /\ UNCHANGED <<store, lastId, now>>

\* TaskUpdate(**kw) followed by TaskService.update_task
UpdateTask(task_id, kw) ==
    IF ~TaskUpdateValid(kw)
    THEN /\ last' = Call("update_task", task_id, kw, Raised("ValidationError"))
         /\ UNCHANGED <<store, lastId, now>>
    ELSE IF SessionGet(task_id) = None
    THEN /\ last' = Call("update_task", task_id, kw, Returned("None", None))
         /\ UNCHANGED <<store, lastId, now>>
    ELSE \E t \in UtcNow :
         LET attrs == SetAttrs(SessionGet(task_id)[1], kw, t)
         IN  /\ now' = t
             /\ lastId' = lastId
             /\ IF NotNullOk(attrs)
                THEN /\ store' = Upsert(store, Row(attrs))
                     /\ last' = Call("update_task", task_id, kw,
                                     Returned("Task", Row(attrs)))
                ELSE /\ store' = store
                     /\ last' = Call("update_task", task_id, kw,
                                     Raised("IntegrityError"))

\* the task after `task.completed = not task.completed` and the refresh of
\* updated_at
Toggled(task, t) == [task EXCEPT !.completed = ~task.completed, !.updated_at = t]

\* TaskService.toggle_completed
ToggleCompleted(task_id) ==
    IF SessionGet(task_id) = None
    THEN /\ last' = Call("toggle_completed", task_id, NoRequest, Returned("None", None))
         /\ UNCHANGED <<store, lastId, now>>
    ELSE \E t \in UtcNow :
         LET task == Toggled(SessionGet(task_id)[1], t)
         IN  /\ now' = t
             /\ store' = Upsert(store, task)
             /\ last' = Call("toggle_completed", task_id, NoRequest,
                             Returned("Task", task))
             /\ lastId' = lastId

\* TaskService.delete_task
DeleteTask(task_id) ==
    IF SessionGet(task_id) = None
    THEN /\ last' = Call("delete_task", task_id, NoRequest, Returned("Bool", FALSE))
         /\ UNCHANGED <<store, lastId, now>>
    ELSE /\ store' = Deleted(store, task_id)
         /\ last' = Call("delete_task", task_id, NoRequest, Returned("Bool", TRUE))
         /\ UNCHANGED <<lastId, now>>

\* TaskService.get_completed_tasks
GetCompletedTasks ==
    /\ \E r \in CompletedTasks(store) :
          last' = Call("get_completed_tasks", 0, NoRequest, Returned("List", r))
    /\ UNCHANGED <<store, lastId, now>>

\* TaskService.get_pending_tasks
GetPendingTasks ==
    /\ \E r \in PendingTasks(store) :
          last' = Call("get_pending_tasks", 0, NoRequest, Returned("List", r))
    /\ UNCHANGED <<store, lastId, now>>

Next ==
    \/ \E kw \in CreateRequests : CreateTask(kw) /\ UNCHANGED <<ui, sessions>>
    \/ GetAllTasks /\ UNCHANGED <<ui, sessions>>
    \/ \E i \in CallIds : GetTask(i) /\ UNCHANGED <<ui, sessions>>
    \/ \E i \in CallIds : \E kw \in UpdateRequests : UpdateTask(i, kw) /\ UNCHANGED <<ui, sessions>>
    \/ \E i \in CallIds : ToggleCompleted(i) /\ UNCHANGED <<ui, sessions>>
    \/ \E i \in CallIds : DeleteTask(i) /\ UNCHANGED <<ui, sessions>>
    \/ GetCompletedTasks /\ UNCHANGED <<ui, sessions>>
    \/ GetPendingTasks /\ UNCHANGED <<ui, sessions>>

Spec == Init /\ [][Next]_vars

\* ------------------------------------------- priority of stored tasks
\* create and update requests that set, omit or null the priority
PriorityCreateRequests ==
    { [title |-> TitleA],
      [title |-> TitleA, priority |-> "urgent"] }

PriorityUpdateRequests ==
    { [priority |-> Some("low")],
      [priority |-> Some("high"), title |-> Some(TitleB)],
      [priority |-> None],
      [priority |-> None, due_date |-> Some(1)] }

NextPriority ==
    \/ \E kw \in PriorityCreateRequests : CreateTask(kw) /\ UNCHANGED <<ui, sessions>>
    \/ \E i \in CallIds : \E kw \in PriorityUpdateRequests : UpdateTask(i, kw) /\ UNCHANGED <<ui, sessions>>
    \/ \E i \in CallIds : DeleteTask(i) /\ UNCHANGED <<ui, sessions>>

SpecPriority == Init /\ [][NextPriority]_vars

\* -------------------------------------------------------- id sequence
\* the primary key of a new row when the store assigns keys from a sequence
\* (the engine is configured in app/database.py): the successor of the largest
\* key ever assigned
SequenceId == lastId + 1

\* create_task on a store that assigns keys from the sequence
CreateTaskInSequence(kw) ==
    /\ CreateTask(kw)
    /\ last'.result.kind = "Task" => last'.result.val.id = SequenceId

NextSequence ==
    \/ \E kw \in PriorityCreateRequests : CreateTaskInSequence(kw) /\ UNCHANGED <<ui, sessions>>
    \/ \E i \in CallIds : \E kw \in PriorityUpdateRequests : UpdateTask(i, kw) /\ UNCHANGED <<ui, sessions>>
    \/ \E i \in CallIds : ToggleCompleted(i) /\ UNCHANGED <<ui, sessions>>
    \/ \E i \in CallIds : DeleteTask(i) /\ UNCHANGED <<ui, sessions>>

SpecSequence == Init /\ [][NextSequence]_vars

\* ---------------------------------------------------- storage failures
\* the statements of update_task and toggle_completed that reach the storage:
\* session.get, session.commit (flush of the UPDATE, then COMMIT) and
\* session.refresh
StorageSteps == {"get", "commit", "refresh"}

\* a call that raised because the storage failed at the step
FailedCall(op, task_id, req, step) ==
    [op |-> op, id |-> task_id, req |-> req, before |-> SessionGet(task_id),
     result |-> Raised("OperationalError"), step |-> step]

\* mutant of RolledBack: the UPDATE of a failed commit stays in the table
NotRolledBack(rows, row) == Upsert(rows, row)

\* the table after session.commit() raised: the transaction is rolled back
RolledBack(rows, row) == rows

\* update_task when the storage fails at the step
UpdateTaskStorageFailure(task_id, kw, step) ==
    /\ TaskUpdateValid(kw)
    /\ last' = FailedCall("update_task", task_id, kw, step)
    /\ lastId' = lastId
    /\ IF step = "get"
       THEN UNCHANGED <<store, now>>
       ELSE /\ SessionGet(task_id) # None
            /\ \E t \in UtcNow :
                 LET attrs == SetAttrs(SessionGet(task_id)[1], kw, t)
                 IN  /\ now' = t
                     /\ IF step = "commit"
                        THEN store' = (IF NotNullOk(attrs)
                                       THEN RolledBack(store, Row(attrs)) ELSE store)
                        ELSE /\ NotNullOk(attrs)
                             /\ store' = Upsert(store, Row(attrs))

\* toggle_completed when the storage fails at the step
ToggleCompletedStorageFailure(task_id, step) ==
    /\ last' = FailedCall("toggle_completed", task_id, NoRequest, step)
    /\ lastId' = lastId
    /\ IF step = "get"
       THEN UNCHANGED <<store, now>>
       ELSE /\ SessionGet(task_id) # None
            /\ \E t \in UtcNow :
                 LET task == Toggled(SessionGet(task_id)[1], t)
                 IN  /\ now' = t
                     /\ store' = (IF step = "commit" THEN RolledBack(store, task)
                                  ELSE Upsert(store, task))

\* the requests of the calls that meet a storage failure
StorageCreateRequests == { [title |-> TitleA] }

StorageUpdateRequests ==
    { [priority |-> Some("high"), title |-> Some(TitleB)], [priority |-> None] }

NextStorage ==
    \/ \E kw \in StorageCreateRequests : CreateTask(kw) /\ UNCHANGED <<ui, sessions>>
    \/ \E i \in CallIds : \E kw \in StorageUpdateRequests : UpdateTask(i, kw) /\ UNCHANGED <<ui, sessions>>
    \/ \E i \in CallIds : ToggleCompleted(i) /\ UNCHANGED <<ui, sessions>>
    \/ \E i \in CallIds : \E kw \in StorageUpdateRequests : \E step \in StorageSteps :
          UpdateTaskStorageFailure(i, kw, step) /\ UNCHANGED <<ui, sessions>>
    \/ \E i \in CallIds : \E step \in StorageSteps : ToggleCompletedStorageFailure(i, step) /\ UNCHANGED <<ui, sessions>>

SpecStorage == Init /\ [][NextStorage]_vars

\* ----------------------------------------------------------------- view
\* the characters str.strip() removes
Whitespace == {" ", "\t"}

\* mutant of Strip: the text as typed
NotStripped(text) == text

\* text.strip(): the text without its leading and trailing whitespace
RECURSIVE Strip(_)
Strip(text) ==
    IF text = <<>> THEN <<>>
    ELSE IF Head(text).c \in Whitespace THEN Strip(Tail(text))
    ELSE IF text[Len(text)].c \in Whitespace THEN Strip(SubSeq(text, 1, Len(text) - 1))
    ELSE text

\* ui.notify(message, type=...)
Notify(type, message) == Some([type |-> type, message |-> message])

\* what a handler shows: its notification and whether it reloads the page
Shown(notify, reload) == [notify |-> notify, reload |-> reload]

\* add_new_task after TaskCreate(...) and create_task: success and reload
\* after the call returned, the error notice of the except branch otherwise
AddShown(result) ==
    IF result.kind = "Task"
    THEN Shown(Notify("positive", "Task added successfully!"), TRUE)
    ELSE Shown(Notify("negative", "Error adding task: <exception>"), FALSE)

\* mutant of ToggleShown: success and reload whatever toggle_completed gave
ToggleShownAlways(result) ==
    Shown(Notify("positive", "Task marked as completed!"), TRUE)

\* toggle_task_completion after toggle_completed
ToggleShown(result) ==
    IF result.kind = "Task"
    THEN Shown(Notify("positive", IF result.val.completed
                                  THEN "Task marked as completed!"
                                  ELSE "Task marked as pending!"), TRUE)
    ELSE IF result.kind = "None"
    THEN Shown(Notify("negative", "Task not found"), FALSE)
    ELSE Shown(Notify("negative", "Error updating task: <exception>"), FALSE)

\* delete_task_confirm after delete_task
DeleteShown(result) ==
    IF result.kind = "Bool" /\ result.val
    THEN Shown(Notify("positive", "Task deleted successfully!"), TRUE)
    ELSE Shown(Notify("negative", "Task not found"), FALSE)

\* edit_task_dialog after TaskUpdate(...) and update_task
EditShown(result) ==
    IF result.kind = "Task"
    THEN Shown(Notify("positive", "Task updated successfully!"), TRUE)
    ELSE IF result.kind = "None"
    THEN Shown(Notify("negative", "Error updating task"), FALSE)
    ELSE Shown(Notify("negative", "Error editing task: <exception>"), FALSE)

\* what `await dialog` returns: the value a button submitted, or nothing when
\* the dialog was dismissed
DialogResults == {"delete", "save", "cancel", "dismissed"}

\* mutant of DeleteConfirmed: everything but Cancel deletes
DeleteNotCancelled(result) == result # "cancel"

\* `if result == "delete"`
DeleteConfirmed(result) == result = "delete"

\* `if result == "save"`
SaveConfirmed(result) == result = "save"

\* the ids the cards of the page may carry: of tasks that were stored when
\* the page was rendered
CardIds == 1..lastId

\* the values of the add form when Add Task is clicked
AddForms ==
    { [title |-> t, description |-> EmptyText, priority |-> "high", due_date |-> None] :
        t \in { EmptyText,
                <<Run(" ", 1), Run("\t", 1)>>,
                <<Run(" ", 1), Run("a", 1), Run(" ", 2)>>,
                TitleTooLong } }

\* the values of the edit form when the dialog is submitted
EditForms ==
    { [title |-> t, description |-> EmptyText, priority |-> "high", due_date |-> None] :
        t \in { <<Run(" ", 2)>>, <<Run("\t", 1), Run("b", 1)>>, TitleTooLong } }

\* TaskCreate(title=title, description=description, priority=..., due_date=...)
\* of add_new_task
AddRequest(form) ==
    [title |-> Strip(form.title), description |-> Strip(form.description),
     priority |-> form.priority, due_date |-> form.due_date]

\* TaskUpdate(title=title, description=..., priority=..., due_date=...) of
\* edit_task_dialog; completed is never provided
EditRequest(form) ==
    [title |-> Some(Strip(form.title)), description |-> Some(Strip(form.description)),
     priority |-> Some(form.priority), due_date |-> form.due_date]

\* mutant of Closes: the service is closed only when the handler is left
\* without an exception
ClosesUnlessRaised(task_service, raised) ==
    IF task_service /\ ~raised THEN 1 ELSE 0

\* `finally: if task_service: task_service.close()`: the number of close()
\* calls, for task_service None (FALSE) or constructed (TRUE) and the try
\* block left by an exception or not
Closes(task_service, raised) == IF task_service THEN 1 ELSE 0

\* the handler is left before its try block: no TaskService is constructed
\* and no finally clause runs
NoService == [open |-> sessions.open, constructed |-> 0, closed |-> 0]

\* the handler ran `task_service = TaskService()` and its try block to the end
\* of the finally clause
Tried(raised) ==
    [open |-> sessions.open + 1 - Closes(TRUE, raised), constructed |-> 1,
     closed |-> Closes(TRUE, raised)]

\* TaskService() raised: task_service is still None in the finally clause
NotConstructed ==
    [open |-> sessions.open - Closes(FALSE, TRUE), constructed |-> 0,
     closed |-> Closes(FALSE, TRUE)]

\* edit_task_dialog constructed its TaskService and waits at `await dialog`
Awaiting == [open |-> sessions.open + 1, constructed |-> 1, closed |-> 0]

\* edit_task_dialog went on after `await dialog` to the end of its finally
\* clause, with the TaskService it constructed before the dialog
Resumed(raised) ==
    [open |-> sessions.open - Closes(TRUE, raised), constructed |-> 0,
     closed |-> Closes(TRUE, raised)]

\* the service call of the handler raised
RaisedIn(result) == result.kind \notin {"Task", "None", "Bool", "List"}

\* add_new_task
AddNewTask(form) ==
    /\ ui.dialog = None
    /\ IF Strip(form.title) = EmptyText
       THEN /\ ui' = View("add_new_task", 0, Some(form), "", None,
                          Notify("negative", "Please enter a task title"), FALSE,
                          <<>>, None)
            /\ sessions' = NoService
            /\ UNCHANGED <<store, lastId, now, last>>
       ELSE /\ CreateTask(AddRequest(form))
            /\ sessions' = Tried(RaisedIn(last'.result))
            /\ ui' = View("add_new_task", 0, Some(form), "", None,
                          AddShown(last'.result).notify, AddShown(last'.result).reload,
                          IF last'.result.kind = "ValidationError" THEN <<>>
                          ELSE <<"create_task">>,
                          None)

\* mutant of Groups: the pending group is not filtered
GroupsPendingAll(tasks) ==
    [empty     |-> tasks = <<>>,
     pending   |-> tasks,
     completed |-> SelectSeq(tasks, LAMBDA t : t.completed)]

\* the groups refresh_task_list shows for the tasks get_all_tasks returned
Groups(tasks) ==
    [empty     |-> tasks = <<>>,
     pending   |-> SelectSeq(tasks, LAMBDA t : ~t.completed),
     completed |-> SelectSeq(tasks, LAMBDA t : t.completed)]

\* refresh_task_list, which renders the page
RefreshTaskList ==
    /\ ui.dialog = None
    /\ GetAllTasks
    /\ sessions' = Tried(FALSE)
    /\ ui' = View("refresh_task_list", 0, None, "", None, None, FALSE,
                  <<"get_all_tasks">>, Some(Groups(last'.result.val)))

\* toggle_task_completion; the storage may fail during toggle_completed
ToggleTaskCompletion(task_id) ==
    /\ ui.dialog = None
    /\ \/ ToggleCompleted(task_id)
       \/ \E step \in StorageSteps : ToggleCompletedStorageFailure(task_id, step)
    /\ sessions' = Tried(RaisedIn(last'.result))
    /\ ui' = View("toggle_task_completion", task_id, None, "", None,
                  ToggleShown(last'.result).notify, ToggleShown(last'.result).reload,
                  <<"toggle_completed">>, None)

\* delete_task_confirm up to `await dialog`: the dialog opens
DeleteTaskConfirm(task_id) ==
    /\ ui.dialog = None
    /\ ui' = View("delete_task_confirm", task_id, None, "",
                  Some([kind |-> "delete", id |-> task_id]), None, FALSE, <<>>, None)
    /\ sessions' = NoService
    /\ UNCHANGED <<store, lastId, now, last>>

\* delete_task_confirm from the return of `await dialog`
DeleteDialogSubmit(result) ==
    /\ ui.dialog # None
    /\ ui.dialog[1].kind = "delete"
    /\ LET task_id == ui.dialog[1].id
       IN  IF DeleteConfirmed(result)
           THEN /\ DeleteTask(task_id)
                /\ sessions' = Tried(FALSE)
                /\ ui' = View("delete_task_confirm", task_id, None, result, None,
                              DeleteShown(last'.result).notify,
                              DeleteShown(last'.result).reload, <<"delete_task">>, None)
           ELSE /\ ui' = View("delete_task_confirm", task_id, None, result, None,
                              None, FALSE, <<>>, None)
                /\ sessions' = NoService
                /\ UNCHANGED <<store, lastId, now, last>>

\* edit_task_dialog up to `await dialog`: get_task, then the dialog opens
EditTaskDialog(task_id) ==
    /\ ui.dialog = None
    /\ GetTask(task_id)
    /\ sessions' = IF last'.result.kind = "None" THEN Tried(FALSE) ELSE Awaiting
    /\ ui' = IF last'.result.kind = "None"
             THEN View("edit_task_dialog", task_id, None, "", None,
                       Notify("negative", "Task not found"), FALSE, <<"get_task">>, None)
             ELSE View("edit_task_dialog", task_id, None, "",
                       Some([kind |-> "edit", id |-> task_id]), None, FALSE,
                       <<"get_task">>, None)

\* update_task on the session that loaded the task when the dialog opened,
\* after another session deleted the row: session.get gives the object the
\* session holds, and the UPDATE of the commit matches no row
\* (StaleDataError); a session that no longer holds the object gives None
UpdateTaskStale(task_id, kw) ==
    \/ UpdateTask(task_id, kw)
    \/ /\ TaskUpdateValid(kw)
       /\ SessionGet(task_id) = None
       /\ \E t \in UtcNow : now' = t
       /\ last' = Call("update_task", task_id, kw, Raised("StaleDataError"))
       /\ UNCHANGED <<store, lastId>>

\* edit_task_dialog from the return of `await dialog`
EditDialogSubmit(result, form) ==
    /\ ui.dialog # None
    /\ ui.dialog[1].kind = "edit"
    /\ LET task_id == ui.dialog[1].id
       IN  IF ~SaveConfirmed(result)
           THEN /\ ui' = View("edit_task_dialog", task_id, None, result, None,
                              None, FALSE, <<>>, None)
                /\ sessions' = Resumed(FALSE)
                /\ UNCHANGED <<store, lastId, now, last>>
           ELSE IF Strip(form.title) = EmptyText
           THEN /\ ui' = View("edit_task_dialog", task_id, Some(form), result, None,
                              Notify("negative", "Please enter a task title"), FALSE,
                              <<>>, None)
                /\ sessions' = Resumed(FALSE)
                /\ UNCHANGED <<store, lastId, now, last>>
           ELSE /\ UpdateTaskStale(task_id, EditRequest(form))
                /\ sessions' = Resumed(RaisedIn(last'.result))
                /\ ui' = View("edit_task_dialog", task_id, Some(form), result, None,
                              EditShown(last'.result).notify,
                              EditShown(last'.result).reload,
                              IF last'.result.kind = "ValidationError" THEN <<>>
                              ELSE <<"update_task">>,
                              None)

\* another view of the same store deletes a task
OtherViewDelete(task_id) ==
    /\ DeleteTask(task_id)
    /\ ui' = [ui EXCEPT !.actor = "other"]
    /\ UNCHANGED sessions

NextView ==
    \/ \E form \in AddForms : AddNewTask(form)
    \/ RefreshTaskList
    \/ \E i \in CardIds : ToggleTaskCompletion(i)
    \/ \E i \in CardIds : DeleteTaskConfirm(i)
    \/ \E result \in DialogResults : DeleteDialogSubmit(result)
    \/ \E i \in CardIds : EditTaskDialog(i)
    \/ \E result \in DialogResults : \E form \in EditForms : EditDialogSubmit(result, form)
    \/ \E i \in CardIds : OtherViewDelete(i)

SpecView == Init /\ [][NextView]_vars

\* ------------------------------------------------------------- sessions
\* a handler whose `task_service = TaskService()` raised: the except branch
\* shows the error and the finally clause finds task_service None
ConstructionFailed(handler, task_id, form, result, message) ==
    /\ ui' = View(handler, task_id, form, result, None,
                  Notify("negative", message), FALSE, <<>>, None)
    /\ sessions' = NotConstructed
    /\ UNCHANGED <<store, lastId, now, last>>

AddNewTaskNoService(form) ==
    /\ ui.dialog = None
    /\ Strip(form.title) # EmptyText
    /\ ConstructionFailed("add_new_task", 0, Some(form), "",
                          "Error adding task: <exception>")

RefreshTaskListNoService ==
    /\ ui.dialog = None
    /\ ConstructionFailed("refresh_task_list", 0, None, "",
                          "Error loading tasks: <exception>")

ToggleTaskCompletionNoService(task_id) ==
    /\ ui.dialog = None
    /\ ConstructionFailed("toggle_task_completion", task_id, None, "",
                          "Error updating task: <exception>")

DeleteDialogSubmitNoService(result) ==
    /\ ui.dialog # None
    /\ ui.dialog[1].kind = "delete"
    /\ DeleteConfirmed(result)
    /\ ConstructionFailed("delete_task_confirm", ui.dialog[1].id, None, result,
                          "Error deleting task: <exception>")

EditTaskDialogNoService(task_id) ==
    /\ ui.dialog = None
    /\ ConstructionFailed("edit_task_dialog", task_id, None, "",
                          "Error editing task: <exception>")

NextSession ==
    \/ NextView
    \/ \E form \in AddForms : AddNewTaskNoService(form)
    \/ RefreshTaskListNoService
    \/ \E i \in CardIds : ToggleTaskCompletionNoService(i)
    \/ \E result \in DialogResults : DeleteDialogSubmitNoService(result)
    \/ \E i \in CardIds : EditTaskDialogNoService(i)

SpecSession == Init /\ [][NextSession]_vars

\* ------------------------------------------------------------- due date
\* requests and edit forms that set, clear or omit the due date
DueCreateRequests == { [title |-> TitleA, due_date |-> Some(1)] }

DueUpdateRequests == { [priority |-> Some("low")], [due_date |-> None] }

DueEditForms ==
    { [title |-> <<Run(" ", 1), Run("b", 1)>>, description |-> <<Run("d", 1), Run(" ", 1)>>,
       priority |-> "low", due_date |-> None] }

\* a caller of the service other than the handlers of the view
Caller == [ui EXCEPT !.actor = "caller"]

\* the service calls run while no dialog of the view is open (one writer at a
\* time); the edit dialog is opened and submitted in between
NextDue ==
    \/ \E kw \in DueCreateRequests :
          ui.dialog = None /\ CreateTask(kw) /\ ui' = Caller /\ UNCHANGED sessions
    \/ \E i \in CallIds : \E kw \in DueUpdateRequests :
          ui.dialog = None /\ UpdateTask(i, kw) /\ ui' = Caller /\ UNCHANGED sessions
    \/ \E i \in CallIds :
          ui.dialog = None /\ ToggleCompleted(i) /\ ui' = Caller /\ UNCHANGED sessions
    \/ \E i \in CardIds : EditTaskDialog(i)
    \/ \E result \in DialogResults : \E form \in DueEditForms : EditDialogSubmit(result, form)

SpecDue == Init /\ [][NextDue]_vars

\* ------------------------------------------------------------- claims
\* In the step formulas below the primed `last` describes the call the step
\* made, and the unprimed store is the table before that call.

Rows(rows) == {rows[i] : i \in DOMAIN rows}

Elements(seq) == {seq[k] : k \in 1..Len(seq)}

\* the sequence never increases in the column
Descending(seq, column) ==
    \A k \in 1..(Len(seq) - 1) : seq[k][column] >= seq[k + 1][column]

\* the sequence lists exactly the rows of S, each once
ListsExactly(seq, S) == Elements(seq) = S /\ Len(seq) = Cardinality(S)

\* the lengths the create schema accepts, as the data model states them
CreateLengthsOk(kw) ==
    /\ TextLen(kw.title) >= 1
    /\ TextLen(kw.title) <= 200
    /\ ("description" \in DOMAIN kw => TextLen(kw.description) <= 1000)

\* C1: a valid create request returns the stored task: its id is assigned and
\* is the id of no task stored before, completed is false, priority is the
\* requested one or medium, title, description and due_date are the request's,
\* and created_at = updated_at.
C1_Step ==
    (last'.op = "create_task" /\ CreateLengthsOk(last'.req)) =>
        /\ last'.result.kind = "Task"
        /\ LET task == last'.result.val
               kw == last'.req
           IN  /\ task.id >= 1
               /\ task.id \notin DOMAIN store
               /\ task.id \in DOMAIN store' /\ store'[task.id] = task
               /\ task.completed = FALSE
               /\ task.priority =
                    (IF "priority" \in DOMAIN kw THEN kw.priority ELSE "medium")
               /\ task.title = kw.title
               /\ task.description =
                    (IF "description" \in DOMAIN kw THEN kw.description ELSE EmptyText)
               /\ task.due_date =
                    (IF "due_date" \in DOMAIN kw THEN kw.due_date ELSE None)
               /\ task.created_at = task.updated_at

C1_CreateReturnsFreshTask == [][C1_Step]_vars

\* C2: a create request whose title has length 0 or more than 200, or whose
\* description has more than 1000 characters, fails with a validation error
\* and the stored tasks are the same before and after.
C2_Step ==
    (last'.op = "create_task" /\ ~CreateLengthsOk(last'.req)) =>
        /\ last'.result.kind = "ValidationError"
        /\ store' = store

C2_InvalidCreateRejected == [][C2_Step]_vars

C2_Witness ==
    /\ last.op = "create_task"
    /\ last.result.kind = "ValidationError"
    /\ TextLen(last.req.title) > 200
    /\ store # <<>>

\* the value a field of a stored row has when an update request sets it
Requested(kw, f) == IF f = "due_date" THEN kw[f] ELSE kw[f][1]

UpdatableFields == {"title", "description", "completed", "priority", "due_date"}

\* the frame of a successful update: the fields the request provides take the
\* requested value, every other field but updated_at keeps its value, and no
\* other task changes
UpdateFrame ==
    LET i == last'.id
        kw == last'.req
    IN  /\ DOMAIN store' = DOMAIN store
        /\ \A j \in DOMAIN store \ {i} : store'[j] = store[j]
        /\ last'.result.val = store'[i]
        /\ \A f \in UpdatableFields :
              store'[i][f] = (IF f \in DOMAIN kw THEN Requested(kw, f) ELSE store[i][f])
        /\ store'[i].id = store[i].id
        /\ store'[i].created_at = store[i].created_at

\* C3: update_task on an existing id changes exactly the fields the request
\* provides and updated_at, leaves every other field and every other task as
\* they were, and returns an updated_at strictly greater than before.
C3_Step ==
    (last'.op = "update_task" /\ last'.result.kind = "Task") =>
        /\ UpdateFrame
        /\ last'.result.val.updated_at > store[last'.id].updated_at

C3_PartialUpdate == [][C3_Step]_vars

C5_CompletedPendingPartition ==
    \A c \in CompletedTasks(store) : \A p \in PendingTasks(store) :
    \A a \in AllTasks(store) :
        /\ ListsExactly(c, {t \in Rows(store) : t.completed = TRUE})
        /\ Descending(c, "updated_at")
        /\ ListsExactly(p, {t \in Rows(store) : t.completed = FALSE})
        /\ Descending(p, "created_at")
        /\ Elements(c) \cap Elements(p) = {}
        /\ Elements(c) \cup Elements(p) = Elements(a)
        /\ Len(c) + Len(p) = Len(a)
        /\ (last.op = "get_completed_tasks" => last.result.val \in CompletedTasks(store))
        /\ (last.op = "get_pending_tasks" => last.result.val \in PendingTasks(store))
        /\ (last.op = "get_all_tasks" => last.result.val \in AllTasks(store))

C5_Witness ==
    /\ last.op = "get_completed_tasks"
    /\ Len(last.result.val) = 2
    /\ last.result.val[1].updated_at > last.result.val[2].updated_at
    /\ last.result.val[1].created_at < last.result.val[2].created_at

\* C6: toggle_completed on an existing id flips completed and changes nothing
\* else but updated_at; applied twice in succession to the same task it
\* returns completed to its original value, and updated_at strictly increases
\* on each call.
C6_Step ==
    (last'.op = "toggle_completed" /\ last'.result.kind = "Task") =>
        LET i == last'.id
        IN  /\ DOMAIN store' = DOMAIN store
            /\ \A j \in DOMAIN store \ {i} : store'[j] = store[j]
            /\ store'[i] = [store[i] EXCEPT !.completed = ~store[i].completed,
                                            !.updated_at = store'[i].updated_at]
            /\ store'[i].updated_at > store[i].updated_at
            /\ (last.op = "toggle_completed" /\ last.id = i /\ last.result.kind = "Task") =>
                  store'[i].completed = last.before[1].completed

C6_ToggleTwice == [][C6_Step]_vars

\* C7: delete_task on an existing id returns true and removes that task and
\* no other; afterwards get_task on that id returns absent and no list
\* operation returns the task, until a create is assigned that id.
C7_Step ==
    /\ (last'.op = "delete_task" /\ last'.id \in DOMAIN store) =>
          /\ last'.result = Returned("Bool", TRUE)
          /\ store' = [j \in DOMAIN store \ {last'.id} |-> store[j]]
    /\ \A i \in CallIds :
          (i \notin DOMAIN store /\ i \in DOMAIN store') =>
              /\ last'.op = "create_task"
              /\ last'.result.kind = "Task"
              /\ last'.result.val.id = i
    /\ (last'.op = "get_task" /\ last'.id \notin DOMAIN store) =>
          last'.result = Returned("None", None)
    /\ (last'.op \in {"get_all_tasks", "get_completed_tasks", "get_pending_tasks"}) =>
          \A t \in Elements(last'.result.val) : t.id \in DOMAIN store

C7_DeleteRemoves == [][C7_Step]_vars

C7_Witness ==
    /\ last.op = "get_task"
    /\ last.id <= lastId
    /\ last.result = Returned("None", None)
    /\ store # <<>>

\* C8: get_task, update_task and toggle_completed called with an id that is
\* not in the store return absent and leave every stored task unchanged.
C8_Step ==
    (/\ last'.op \in {"get_task", "update_task", "toggle_completed"}
     /\ last'.id \notin DOMAIN store
     /\ (last'.op = "update_task" => TaskUpdateValid(last'.req))) =>
        /\ last'.result = Returned("None", None)
        /\ store' = store

C8_MissingIdReturnsAbsent == [][C8_Step]_vars

C8_Witness ==
    /\ last.op = "update_task"
    /\ last.id \notin DOMAIN store
    /\ "title" \in DOMAIN last.req
    /\ last.result = Returned("None", None)
    /\ store # <<>>

\* C9: delete_task called with an id that is not in the store returns false
\* and leaves the stored tasks, and so their number, unchanged.
C9_Step ==
    (last'.op = "delete_task" /\ last'.id \notin DOMAIN store) =>
        /\ last'.result = Returned("Bool", FALSE)
        /\ store' = store

C9_DeleteMissingReturnsFalse == [][C9_Step]_vars

C9_Witness ==
    /\ last.op = "delete_task"
    /\ last.result = Returned("Bool", FALSE)
    /\ store # <<>>

\* the update request sets title or description to a value outside the bounds
\* of the data model: a text too short or too long, or the null value
UpdateOutOfBounds(kw) ==
    \/ /\ "title" \in DOMAIN kw
       /\ (kw.title = None \/ TextLen(kw.title[1]) < 1 \/ TextLen(kw.title[1]) > 200)
    \/ /\ "description" \in DOMAIN kw
       /\ (kw.description = None \/ TextLen(kw.description[1]) > 1000)

\* C10: after any sequence of create and update operations every stored task
\* has a title of length 1-200 and a description of length 0-1000; an update
\* whose title or description is outside these bounds, the null value
\* included, raises and leaves the stored tasks as they were.
C10_Step ==
    /\ \A i \in DOMAIN store' :
          /\ TextLen(store'[i].title) >= 1
          /\ TextLen(store'[i].title) <= 200
          /\ TextLen(store'[i].description) <= 1000
    /\ (/\ last'.op = "update_task"
        /\ last'.id \in DOMAIN store
        /\ UpdateOutOfBounds(last'.req)) =>
          /\ last'.result.kind \in {"ValidationError", "IntegrityError"}
          /\ store' = store

C10_LengthsKept == [][C10_Step]_vars

C10_Witness ==
    /\ last.op = "update_task"
    /\ last.result.kind = "IntegrityError"
    /\ "priority" \in DOMAIN last.req
    /\ \E i \in DOMAIN store : TextLen(store[i].title) = 200

\* C11: every stored task's priority is one of low, medium, high, urgent; an
\* update request that sets priority to the null value raises and leaves the
\* stored tasks as they were.
C11_Step ==
    /\ \A i \in DOMAIN store' : store'[i].priority \in TaskPriority
    /\ (/\ last'.op = "update_task"
        /\ last'.id \in DOMAIN store
        /\ "priority" \in DOMAIN last'.req
        /\ last'.req.priority = None) =>
          /\ last'.result.kind = "IntegrityError"
          /\ store' = store

C11_PriorityInEnum == [][C11_Step]_vars

C11_Witness ==
    /\ last.op = "update_task"
    /\ last.result.kind = "IntegrityError"
    /\ last.req.priority = None
    /\ \E i \in DOMAIN store : store[i].priority = "high"
    /\ \E i \in DOMAIN store : store[i].priority = "medium"

\* C12: every stored task has updated_at >= created_at; created_at never
\* changes after creation; every successful update_task or toggle_completed
\* sets updated_at to a value strictly greater than its previous value.
C12_Step ==
    /\ \A i \in DOMAIN store' : store'[i].updated_at >= store'[i].created_at
    /\ \A i \in DOMAIN store \cap DOMAIN store' :
          last'.op # "create_task" => store'[i].created_at = store[i].created_at
    /\ (last'.op \in {"update_task", "toggle_completed"} /\ last'.result.kind = "Task") =>
          store'[last'.id].updated_at > store[last'.id].updated_at

C12_TimestampsIncrease == [][C12_Step]_vars

\* C13: task ids are unique and stable: no two stored tasks share an id, no
\* operation changes the id of an existing task, and an id that a deleted task
\* held is never given to a task created later.
C13_Step ==
    /\ \A i \in DOMAIN store' : store'[i].id = i
    /\ DOMAIN store' \subseteq 1..lastId'
    /\ lastId' >= lastId
    /\ last'.op \in {"update_task", "toggle_completed"} =>
          /\ DOMAIN store' = DOMAIN store
          /\ last'.result.kind = "Task" => last'.result.val.id = last'.id
    /\ last'.op = "delete_task" => DOMAIN store' \subseteq DOMAIN store
    /\ (last'.op = "create_task" /\ last'.result.kind = "Task") =>
          /\ last'.result.val.id > lastId
          /\ DOMAIN store' = DOMAIN store \cup {last'.result.val.id}
          /\ \A i \in DOMAIN store : store'[i] = store[i]

AllChangesStored ==
    LET i == last'.id
        kw == last'.req
    IN  /\ DOMAIN store' = DOMAIN store
        /\ \A j \in DOMAIN store \ {i} : store'[j] = store[j]
        /\ store'[i].id = store[i].id
        /\ store'[i].created_at = store[i].created_at
        /\ store'[i].updated_at = now'
        /\ IF last'.op = "update_task"
           THEN \A f \in UpdatableFields :
                  store'[i][f] = (IF f \in DOMAIN kw THEN Requested(kw, f) ELSE store[i][f])
           ELSE /\ store'[i].completed = ~store[i].completed
                /\ \A f \in UpdatableFields \ {"completed"} : store'[i][f] = store[i][f]

\* C14 (as claimed): update_task and toggle_completed are atomic: when the
\* operation fails at any step, a storage failure at commit included, the store
\* is as before (no field change, updated_at not refreshed); when it succeeds
\* the stored record has all requested changes and the refreshed updated_at.
C14_OriginalStep ==
    last'.op \in {"update_task", "toggle_completed"} =>
        IF last'.result.kind = "Task" THEN AllChangesStored /\ store'[last'.id] = last'.result.val
        ELSE store' = store

C14_Original == [][C14_OriginalStep]_vars

\* C14 (amended): when update_task or toggle_completed fails before its commit
\* has taken effect (validation error, absent id, NOT NULL violation, storage
\* failure at get or at commit) the store is as before; once the commit has
\* taken effect the stored record has all requested changes and the refreshed
\* updated_at, also when the operation then raises because session.refresh
\* fails; a subset of the changes is never stored.
C14_Step ==
    last'.op \in {"update_task", "toggle_completed"} =>
        IF last'.result.kind = "Task"
        THEN AllChangesStored /\ store'[last'.id] = last'.result.val
        ELSE IF last'.result.kind = "OperationalError" /\ last'.step = "refresh"
        THEN AllChangesStored
        ELSE store' = store

C14_AtomicMutation == [][C14_Step]_vars

C14_Witness ==
    /\ last.op = "update_task" /\ last.result.kind = "OperationalError"
    /\ last.step = "commit"
    /\ DOMAIN last.req = {"priority", "title"} /\ last.req.priority # None
    /\ last.id \in DOMAIN store /\ last.before = Some(store[last.id])
    /\ now > store[last.id].updated_at

\* C15: among stored tasks with the same created_at get_all_tasks returns the
\* one inserted earlier first (a create is given an id larger than every stored
\* id, so the earlier inserted has the smaller id), and a get_all_tasks call
\* that follows another on the same store returns the same sequence.
C15_Step ==
    last'.op = "get_all_tasks" =>
        LET r == last'.result.val
        IN  /\ \A k \in 1..(Len(r) - 1) :
                  r[k].created_at = r[k + 1].created_at => r[k].id < r[k + 1].id
            /\ last.op = "get_all_tasks" => last'.result = last.result

C15_StableTieBreak == [][C15_Step]_vars

\* In the step formulas of the view a step whose primed ui has actor "view"
\* is a step of a handler of this view, and the primed ui describes it.

\* the handler showed the success notification or reloaded the page
ShowedSuccess(v) ==
    \/ v.reload
    \/ v.notify # None /\ v.notify[1].type = "positive"

ShowedNotice(v, type, message) ==
    v.notify = Some([type |-> type, message |-> message])

\* C16: in the view a task is deleted only after the confirmation dialog
\* returned "delete": when the dialog is cancelled or dismissed delete_task is
\* not called and the store is unchanged, and delete_task is called only by the
\* step that closes a confirmed dialog, once, for that dialog's task.
C16_Step ==
    ui'.actor = "view" =>
        /\ (ui'.handler = "delete_task_confirm" /\ ui'.result \in {"cancel", "dismissed"}) =>
              /\ ui'.calls = <<>>
              /\ store' = store
        /\ "delete_task" \in Elements(ui'.calls) =>
              /\ ui'.calls = <<"delete_task">>
              /\ ui'.result = "delete"
              /\ ui.dialog = Some([kind |-> "delete", id |-> ui'.id])
              /\ ui'.dialog = None
              /\ last'.op = "delete_task" /\ last'.id = ui'.id
        /\ DOMAIN store \ DOMAIN store' # {} =>
              /\ ui'.calls = <<"delete_task">>
              /\ DOMAIN store \ DOMAIN store' = {ui'.id}

C16_DeleteOnlyConfirmed == [][C16_Step]_vars

C16_Witness ==
    /\ ui.actor = "view" /\ ui.handler = "delete_task_confirm"
    /\ ui.result = "dismissed" /\ ui.calls = <<>> /\ ui.dialog = None
    /\ ui.id \in DOMAIN store

\* C17: a toggle, a confirmed delete or a save of the edit dialog in the view
\* on a task id that another view has deleted shows the notice "Task not
\* found", does not reload, and leaves the store unchanged (the task is not
\* created again).
C17_Step ==
    (/\ ui'.actor = "view"
     /\ ui'.calls \in {<<"toggle_completed">>, <<"delete_task">>, <<"update_task">>}
     /\ ui'.id \notin DOMAIN store
     /\ last'.result.kind # "OperationalError") =>
        /\ ShowedNotice(ui', "negative", "Task not found")
        /\ ~ui'.reload
        /\ store' = store

C17_StaleIdNotFound == [][C17_Step]_vars

\* C18: a handler of the view shows the success notification and reloads the
\* page only in a step whose service call returned after its commit, with the
\* store holding the result; it shows neither when the call raised, returned
\* absent or false, or was not made.
C18_Step ==
    ui'.actor = "view" =>
        /\ ShowedSuccess(ui') =>
              /\ ui'.reload
              /\ ui'.notify # None /\ ui'.notify[1].type = "positive"
              /\ ui'.calls \in {<<"create_task">>, <<"toggle_completed">>,
                                <<"delete_task">>, <<"update_task">>}
              /\ last'.op = ui'.calls[1]
              /\ IF last'.op = "delete_task"
                 THEN /\ last'.result.kind = "Bool" /\ last'.result.val
                      /\ last'.id \in DOMAIN store /\ last'.id \notin DOMAIN store'
                 ELSE /\ last'.result.kind = "Task"
                      /\ last'.result.val.id \in DOMAIN store'
                      /\ store'[last'.result.val.id] = last'.result.val
        /\ (ui'.calls # <<>> /\ ui'.calls[1] # "get_all_tasks" /\ ui'.calls[1] # "get_task"
            /\ last'.result.kind \notin {"Task", "Bool"}) => ~ShowedSuccess(ui')
        /\ (ui'.calls = <<"delete_task">> /\ ~last'.result.val) => ~ShowedSuccess(ui')
        /\ ui'.calls = <<>> => ~ShowedSuccess(ui')

C18_SuccessAfterCommit == [][C18_Step]_vars

C18_Witness ==
    /\ ui.actor = "view" /\ ui.handler = "toggle_task_completion"
    /\ last.op = "toggle_completed" /\ last.result.kind = "OperationalError"
    /\ last.step = "refresh"
    /\ ui.notify # None /\ ui.notify[1].type = "negative" /\ ~ui.reload

\* C19: the pending and completed groups the task list shows hold the same
\* tasks as get_pending_tasks and get_completed_tasks give on the same store,
\* their counts sum to the number of stored tasks, and the empty-state card is
\* shown exactly when no task is stored.
C19_ViewPartition ==
    (ui.actor = "view" /\ ui.handler = "refresh_task_list") =>
        LET g == ui.groups[1]
        IN  /\ \A r \in PendingTasks(store) : Elements(r) = Elements(g.pending)
            /\ \A r \in CompletedTasks(store) : Elements(r) = Elements(g.completed)
            /\ Len(g.pending) + Len(g.completed) = Cardinality(DOMAIN store)
            /\ g.empty <=> DOMAIN store = {}

C19_Witness ==
    /\ ui.actor = "view" /\ ui.handler = "refresh_task_list"
    /\ Len(ui.groups[1].pending) = 1 /\ Len(ui.groups[1].completed) = 1

\* the text is empty or only whitespace
Blank(text) == \A k \in 1..Len(text) : text[k].c \in {" ", "\t"}

\* t is the text without its leading and trailing whitespace
StrippedOf(t, text) ==
    /\ t # <<>> => ~Blank(<<t[1]>>) /\ ~Blank(<<t[Len(t)]>>)
    /\ \E i \in 1..(Len(text) + 1) : \E j \in 0..Len(text) :
          /\ t = SubSeq(text, i, j)
          /\ Blank(SubSeq(text, 1, i - 1))
          /\ Blank(SubSeq(text, j + 1, Len(text)))

\* C20: submitting the add form or saving the edit dialog with an empty or
\* whitespace-only title calls neither create_task nor update_task, leaves the
\* store unchanged and shows an error notice; a title that reaches the service
\* from the view is the typed title without leading and trailing whitespace.
C20_Step ==
    ui'.actor = "view" =>
        /\ (ui'.form # None /\ Blank(ui'.form[1].title)) =>
              /\ ui'.calls = <<>>
              /\ store' = store /\ now' = now
              /\ ui'.notify # None /\ ui'.notify[1].type = "negative"
              /\ ~ui'.reload
        /\ ui'.calls = <<"create_task">> =>
              StrippedOf(last'.req.title, ui'.form[1].title)
        /\ ui'.calls = <<"update_task">> =>
              StrippedOf(last'.req.title[1], ui'.form[1].title)

C20_BlankTitleNoCall == [][C20_Step]_vars

C20_Witness ==
    /\ ui.actor = "view" /\ ui.handler = "edit_task_dialog"
    /\ ui.form # None /\ ui.form[1].title = <<Run(" ", 2)>>
    /\ ShowedNotice(ui, "negative", "Please enter a task title")
    /\ ui.id \in DOMAIN store

\* the edit dialog is open: edit_task_dialog waits at `await dialog`
EditPending(v) == v.dialog # None /\ v.dialog[1].kind = "edit"

\* C21: when a handler of the view has finished, every TaskService it
\* constructed is closed, on every path (success, not found, early return,
\* validation error, exception of the service or of its construction): the
\* only service open in the view is the one of an edit dialog still waiting
\* for its submit; close is called only on a constructed service.
C21_Step ==
    ui'.actor = "view" =>
        /\ sessions'.open = (IF EditPending(ui') THEN 1 ELSE 0)
        /\ sessions'.closed <= sessions'.constructed + sessions.open
        /\ ~EditPending(ui') => sessions'.closed = sessions'.constructed + sessions.open

C21_SessionsClosed == [][C21_Step]_vars

C21_Witness ==
    /\ ui.actor = "view" /\ ui.handler = "edit_task_dialog" /\ ui.result = "save"
    /\ last.op = "update_task" /\ last.result.kind = "StaleDataError"
    /\ sessions = [open |-> 0, constructed |-> 0, closed |-> 1]

\* C22: update_task leaves the stored due date untouched when the request
\* omits due_date and clears it when the request provides due_date as absent;
\* a save of the edit dialog provides title, description, priority and
\* due_date and not completed, so it overwrites those four fields with the
\* form's values and leaves completed as it was.
C22_Step ==
    /\ (last'.op = "update_task" /\ last'.result.kind = "Task") =>
          LET i == last'.id
              kw == last'.req
          IN  /\ "due_date" \notin DOMAIN kw => store'[i].due_date = store[i].due_date
              /\ ("due_date" \in DOMAIN kw /\ kw.due_date = None) =>
                    store'[i].due_date = None
    /\ (ui'.actor = "view" /\ ui'.handler = "edit_task_dialog") =>
          /\ \A i \in DOMAIN store : store'[i].completed = store[i].completed
          /\ (ui'.calls = <<"update_task">> /\ last'.result.kind = "Task") =>
                LET i == ui'.id
                    form == ui'.form[1]
                IN  /\ DOMAIN last'.req = {"title", "description", "priority", "due_date"}
                    /\ StrippedOf(store'[i].title, form.title)
                    /\ StrippedOf(store'[i].description, form.description)
                    /\ store'[i].priority = form.priority
                    /\ store'[i].due_date = form.due_date

C22_OmittedOrCleared == [][C22_Step]_vars

C22_Witness ==
    /\ ui.actor = "view" /\ ui.handler = "edit_task_dialog"
    /\ ui.calls = <<"update_task">>
    /\ last.op = "update_task" /\ last.result.kind = "Task"
    /\ last.before[1].due_date = Some(1) /\ last.before[1].completed
    /\ store[last.id].due_date = None /\ store[last.id].completed
    /\ store[last.id].priority = "low"

====
